---- MODULE Spec2Model ----
(***************************************************************************)
(* A model of the 6LoWPAN example node of jnet                             *)
(* (firmware/examples/sixlowpan.rs): the dispatch loop `run`, the frame    *)
(* processing function `on_new_frame`, the neighbor cache and the two      *)
(* byte buffers `buf` and `extra_buf`.                                     *)
(*                                                                         *)
(* The codecs the example calls (ieee802154, sixlowpan::iphc, icmpv6,      *)
(* ipv6) are not part of the sources at hand.  A frame is therefore        *)
(* modelled by the values its accessors return (the decoded view), and     *)
(* the few codec functions the example relies on are modelled from the     *)
(* specification.                                                          *)
(***************************************************************************)
EXTENDS Integers, Sequences, FiniteSets, TLC

(***************************************************************************)
(* Bounds of the model.                                                    *)
(***************************************************************************)

\* Number of frames the radio delivers in one run of the model.
MaxFrames == 2

\* Capacity of the neighbor cache.  The firmware takes it from the board
\* crate (blue_pill::CACHE_SIZE); the model uses a small capacity so that a
\* full cache is reached within MaxFrames frames.
CACHE_SIZE == 1

(***************************************************************************)
(* Link-layer (IEEE 802.15.4) addresses.                                   *)
(***************************************************************************)

\* Option::None of `get_src_addr` / `get_dest_addr`.
NoAddr == <<"none", 0>>

\* The node's own extended address (blue_pill::EXTENDED_ADDRESS).
EXTENDED_ADDRESS == <<"ext", 0>>

\* The node's PAN identifier (blue_pill::PAN_ID).
PAN_ID == <<"pan", 1>>

\* Extended addresses of two peers, and one that never sends a frame itself.
ExtA == <<"ext", 1>>
ExtB == <<"ext", 2>>
ExtC == <<"ext", 3>>

(***************************************************************************)
(* Network-layer (IPv6) addresses: <<prefix, interface identifier>>.       *)
(***************************************************************************)

\* ipv6::Addr::UNSPECIFIED, the address ::
Unspecified == <<"::", NoAddr>>

\* ieee802154 address -> link-local IPv6 address (fe80::/64 + identifier
\* derived from the link-layer address).
into_link_local_address(ll) == <<"fe80::", ll>>

\* The solicited-node multicast address of the node (ff02::1:ffXX:XXXX).
SolicitedNode == <<"ff02::1:ff", EXTENDED_ADDRESS>>

\* A global unicast address.
Global == <<"2001:db8::", ExtA>>

is_link_local(a) == a[1] = "fe80::"

is_unspecified(a) == a = Unspecified

is_solicited_node(a) == a[1] = "ff02::1:ff"

\* fn our_nl_addr()
our_nl_addr == into_link_local_address(EXTENDED_ADDRESS)

(***************************************************************************)
(* IPHC addresses: iphc::Addr::Complete(addr) or iphc::Addr::Elided(ea).   *)
(***************************************************************************)

Elided == <<"Elided", Unspecified>>

Complete(a) == <<"Complete", a>>

\* ElidedAddr::complete(ll_addr): the link-local prefix plus the bits
\* derived from the link-layer address.
complete(ll) == into_link_local_address(ll)

(***************************************************************************)
(* Inbound frames.  A frame is the record of what the codecs' parsers and  *)
(* accessors return for its bytes.                                         *)
(***************************************************************************)

\* The hop limits a frame may carry: the one RFC 4861 demands and another.
HopLimits == {255, 64}

\* Identifier, sequence number and payload of the Echo Requests received.
EchoBodies ==
    { [identifier |-> 1, sequence_number |-> 2, payload |-> <<>>],
      [identifier |-> 3, sequence_number |-> 4, payload |-> <<5, 6>>] }

\* The values of the 16-bit Checksum field (one bit of it is kept).
Checksums == {0, 1}

\* The IPHC source address fields received: elided, or carried in line
\* (a link-local address of a third party, the unspecified address, a
\* global address).
SrcFields ==
    { Elided, Complete(into_link_local_address(ExtC)),
      Complete(Unspecified), Complete(Global) }

\* The IPHC destination address fields received.
DestFields == { Elided, Complete(SolicitedNode) }

\* The link-layer source addresses of the frames received.
SrcLinkAddrs == { ExtA, ExtB }

\* The target addresses of the Neighbor Solicitations received.
Targets == { our_nl_addr, into_link_local_address(ExtA) }

\* The source link-layer address option of a Neighbor Solicitation
\* (`get_source_ll`): absent or present.
SourceLLOptions == { NoAddr, ExtA }

\* A well-formed Echo Request from ExtA to the node, all addresses elided.
BaseFrame ==
    [ kind            |-> "frame",
      macOk           |-> TRUE,
      type            |-> "Data",
      security        |-> FALSE,
      intraPan        |-> TRUE,
      src_ll          |-> ExtA,
      dest_ll         |-> EXTENDED_ADDRESS,
      iphcOk          |-> TRUE,
      src             |-> Elided,
      dest            |-> Elided,
      next_header     |-> "Ipv6Icmp",
      hop_limit       |-> 255,
      icmpOk          |-> TRUE,
      icmpType        |-> "EchoRequest",
      wellFormed      |-> TRUE,
      checksum        |-> 0,
      source_ll       |-> NoAddr,
      target          |-> Unspecified,
      identifier      |-> 1,
      sequence_number |-> 2,
      payload         |-> <<>> ]

\* Frames the MAC and IPHC layers turn down (one per reason).
RejectedFrames ==
    { [BaseFrame EXCEPT !.macOk = FALSE],
      [BaseFrame EXCEPT !.type = "Beacon"],
      [BaseFrame EXCEPT !.security = TRUE],
      [BaseFrame EXCEPT !.intraPan = FALSE],
      [BaseFrame EXCEPT !.src_ll = NoAddr],
      [BaseFrame EXCEPT !.dest_ll = NoAddr],
      [BaseFrame EXCEPT !.iphcOk = FALSE] }

\* Accepted frames: every link-layer source and IPHC address combination.
HeaderFrames ==
    { [BaseFrame EXCEPT !.src_ll = l, !.src = s, !.dest = d] :
        l \in SrcLinkAddrs, s \in SrcFields, d \in DestFields }

\* Accepted frames that carry no Neighbor Solicitation or Echo Request.
OtherFrames ==
    UNION { { [h EXCEPT !.next_header = "NHC"],
              [h EXCEPT !.next_header = "Udp"],
              [h EXCEPT !.icmpOk = FALSE],
              [h EXCEPT !.icmpType = "NeighborAdvertisement"],
              [h EXCEPT !.icmpType = "EchoReply"] } :
            h \in HeaderFrames }

\* Neighbor Solicitations: malformed ones, and well-formed ones with every
\* checksum, source link-layer option and target.
SolicitationFrames ==
    UNION { { [h EXCEPT !.icmpType = "NeighborSolicitation",
                        !.hop_limit = hl, !.wellFormed = FALSE] :
                hl \in HopLimits }
            \cup
            { [h EXCEPT !.icmpType = "NeighborSolicitation",
                        !.hop_limit = hl, !.checksum = c,
                        !.source_ll = o, !.target = t] :
                hl \in HopLimits, c \in Checksums,
                o \in SourceLLOptions, t \in Targets } :
            h \in HeaderFrames }

\* Echo Requests: malformed ones, and well-formed ones with every checksum
\* and body.
EchoFrames ==
    UNION { { [h EXCEPT !.hop_limit = hl, !.wellFormed = FALSE] :
                hl \in HopLimits }
            \cup
            { [h EXCEPT !.hop_limit = hl, !.checksum = c,
                        !.identifier = b.identifier,
                        !.sequence_number = b.sequence_number,
                        !.payload = b.payload] :
                hl \in HopLimits, c \in Checksums, b \in EchoBodies } :
            h \in HeaderFrames }

\* Everything the radio may deliver.
Frames == RejectedFrames \cup OtherFrames \cup SolicitationFrames \cup EchoFrames

(***************************************************************************)
(* ICMPv6 checksum (spec 4.2, 4.5): the complement of the ones'-complement *)
(* sum over the pseudo-header (source, destination, length, next header    *)
(* 58) and the message.  The model keeps the lowest bit of every word.     *)
(***************************************************************************)

PrefixWord(p) ==
    CASE p = "::" -> 0
      [] p = "fe80::" -> 1
      [] p = "ff02::1:ff" -> 0
      [] OTHER -> 1

AddrWord(a) == PrefixWord(a[1]) + a[2][2]

MessageWord(m) ==
    IF m.icmpType = "NeighborSolicitation"
    THEN AddrWord(m.target) + (IF m.source_ll = NoAddr THEN 0 ELSE 1)
    ELSE m.identifier + m.sequence_number + Len(m.payload)

icmpv6_checksum(m, src, dest) ==
    1 - ((AddrWord(src) + AddrWord(dest) + 58 + MessageWord(m)) % 2)

\* NeighborSolicitation::verify_checksum(src, dest)
verify_checksum(m, src, dest) == icmpv6_checksum(m, src, dest) = m.checksum

(***************************************************************************)
(* The neighbor cache: heapless::FnvIndexMap<ipv6::Addr, ieee802154::Addr, *)
(* CACHE_SIZE>, kept as the sequence of its entries in insertion order.    *)
(***************************************************************************)

Keys(map) == { map[i][1] : i \in 1..Len(map) }

contains_key(map, k) == k \in Keys(map)

IndexOf(map, k) == CHOOSE i \in 1..Len(map) : map[i][1] = k

\* FnvIndexMap::get: Some(value) or None.
get(map, k) ==
    IF contains_key(map, k) THEN <<"Some", map[IndexOf(map, k)][2]>>
    ELSE <<"None", NoAddr>>

is_full(map) == Len(map) >= CACHE_SIZE

\* An insert that makes room in a full map by dropping its oldest entry.
insertEvicting(map, k, v, fullFirst) ==
    IF contains_key(map, k) /\ ~(fullFirst /\ is_full(map))
    THEN [ok |-> TRUE, map |-> [map EXCEPT ![IndexOf(map, k)] = <<k, v>>]]
    ELSE IF is_full(map)
    THEN [ok |-> TRUE, map |-> Append(Tail(map), <<k, v>>)]
    ELSE [ok |-> TRUE, map |-> Append(map, <<k, v>>)]

\* FnvIndexMap::insert: Err when there is no room, else the entry is
\* written (the value of a key already present is replaced in place).
\* Releases of heapless differ on a full map whose key is present: the
\* older ones test `is_full` before they look the key up and return Err,
\* the later ones replace the value.  `fullFirst` says which one is built.
insert(map, k, v, fullFirst) ==
    IF contains_key(map, k) /\ ~(fullFirst /\ is_full(map))
    THEN [ok |-> TRUE, map |-> [map EXCEPT ![IndexOf(map, k)] = <<k, v>>]]
    ELSE IF is_full(map)
    THEN [ok |-> FALSE, map |-> map]
    ELSE [ok |-> TRUE, map |-> Append(map, <<k, v>>)]

(***************************************************************************)
(* on_new_frame                                                            *)
(***************************************************************************)

\* Accepted without the test of line 143: frames with security enabled
\* are processed.
AcceptedWithSecurity(f) ==
    /\ f.macOk
    /\ f.type = "Data"
    /\ f.intraPan
    /\ f.src_ll # NoAddr
    /\ f.dest_ll # NoAddr
    /\ f.iphcOk

\* Lines 127-178: the frame parses as a MAC frame, is an intra-PAN Data
\* frame without security, carries both addresses, and its payload parses
\* as a LOWPAN_IPHC packet.
Accepted(f) ==
    /\ f.macOk
    /\ f.type = "Data"
    /\ ~f.security
    /\ f.intraPan
    /\ f.src_ll # NoAddr
    /\ f.dest_ll # NoAddr
    /\ f.iphcOk

\* Lines 180-183
src_nl_addr(f) ==
    IF f.src[1] = "Complete" THEN f.src[2] ELSE complete(f.src_ll)

\* Lines 184-187
dest_nl_addr(f) ==
    IF f.dest[1] = "Complete" THEN f.dest[2] ELSE complete(f.dest_ll)

\* UpdateCache without the test of line 191: every source address is
\* cached.
UpdateCacheAnySource(cache, f, fullFirst) ==
    insert(cache, src_nl_addr(f), f.src_ll, fullFirst).map

\* UpdateCache that forgets every other neighbor when it learns one.
UpdateCacheFresh(cache, f, fullFirst) ==
    IF is_link_local(src_nl_addr(f))
    THEN <<(<<src_nl_addr(f), f.src_ll>>)>>
    ELSE cache

\* Lines 190-197: the cache after the update (a failed insert is logged
\* and otherwise ignored).
UpdateCache(cache, f, fullFirst) ==
    IF is_link_local(src_nl_addr(f))
    THEN insert(cache, src_nl_addr(f), f.src_ll, fullFirst).map
    ELSE cache

\* The values an Action and the buffers are made of.
NoFrame == [kind |-> "none"]

Zeroes == [kind |-> "zeroes"]

Nop == [tag |-> "Nop", mac |-> NoFrame]

\* ieee802154::Frame::data(buffer, SrcDest::IntraPan {..}): a Data frame
\* header written at the start of the buffer.
data(pan_id, src_addr, dest_addr) ==
    [ kind     |-> "reply",
      type     |-> "Data",
      security |-> FALSE,
      intraPan |-> TRUE,
      pan_id   |-> pan_id,
      src_ll   |-> src_addr,
      dest_ll  |-> dest_addr ]

\* Frame::neighbor_advertisement(src, dest, target_ll, f), with the flags
\* and the target its closure `f` sets.
neighbor_advertisement(mac, src, dest, target_ll, override, solicited, router, target) ==
    [ mac       |-> mac,
      icmpType  |-> "NeighborAdvertisement",
      src       |-> src,
      dest      |-> dest,
      target_ll |-> target_ll,
      override  |-> override,
      solicited |-> solicited,
      router    |-> router,
      target    |-> target ]

\* Frame::echo_reply(src, dest, f), with the identifier, the sequence
\* number and the payload its closure `f` sets.
echo_reply(mac, src, dest, identifier, sequence_number, payload) ==
    [ mac             |-> mac,
      icmpType        |-> "EchoReply",
      src             |-> src,
      dest            |-> dest,
      identifier      |-> identifier,
      sequence_number |-> sequence_number,
      payload         |-> payload ]

\* HopLimitOk without the test of line 222.
HopLimitAny(f) == TRUE

\* Lines 222-226: RFC 4861 7.1.1, "The IP Hop Limit field has a value of
\* 255".
HopLimitOk(f) == f.hop_limit = 255

\* ChecksumOk without the test of line 237.
ChecksumAny(f) == TRUE

\* Lines 237-241: "ICMP Checksum is valid".
ChecksumOk(f) == verify_checksum(f, src_nl_addr(f), dest_nl_addr(f))

\* Lines 244-265: what RFC 4861 demands of a solicitation whose source is
\* the unspecified address.
UnspecifiedSourceOk(f) ==
    is_unspecified(src_nl_addr(f)) =>
        /\ is_solicited_node(dest_nl_addr(f))
        /\ f.source_ll = NoAddr

\* Line 268
TargetIsOurs(f) == f.target = our_nl_addr

\* Advertisement with the link-layer destination taken from the request's
\* destination instead of its source.
AdvertisementToDest(f) ==
    neighbor_advertisement(
        data(PAN_ID, EXTENDED_ADDRESS, f.dest_ll),
        our_nl_addr, src_nl_addr(f), EXTENDED_ADDRESS,
        TRUE, TRUE, FALSE, f.target)

\* Lines 282-308: the solicited Neighbor Advertisement.
Advertisement(f) ==
    neighbor_advertisement(
        data(PAN_ID, EXTENDED_ADDRESS, f.src_ll),
        our_nl_addr, src_nl_addr(f), EXTENDED_ADDRESS,
        TRUE, TRUE, FALSE, f.target)

\* Reply with the network addresses of the request kept in place.
ReplyNotSwapped(f, dest_addr) ==
    echo_reply(
        data(PAN_ID, EXTENDED_ADDRESS, dest_addr),
        src_nl_addr(f), dest_nl_addr(f),
        f.identifier, f.sequence_number, f.payload)

\* Lines 334-349: the Echo Reply, sent to link-layer address `dest_addr`.
Reply(f, dest_addr) ==
    echo_reply(
        data(PAN_ID, EXTENDED_ADDRESS, dest_addr),
        dest_nl_addr(f), src_nl_addr(f),
        f.identifier, f.sequence_number, f.payload)

\* Lines 217-313.  The result: the Action and the request buffer.
OnNeighborSolicitation(f, bytes) ==
    LET reject == [action |-> Nop, buf |-> bytes]
    IN  IF ~HopLimitOk(f) THEN reject
        ELSE IF ~f.wellFormed THEN reject
        ELSE IF ~ChecksumOk(f) THEN reject
        ELSE IF ~UnspecifiedSourceOk(f) THEN reject
        ELSE IF ~TargetIsOurs(f) THEN reject
        ELSE IF is_unspecified(src_nl_addr(f)) THEN reject
        ELSE [ action |-> [tag |-> "SolicitedNeighborAdvertisement",
                           mac |-> Advertisement(f)],
               buf    |-> Advertisement(f) ]

\* OnEchoRequest with the MAC header written into the secondary buffer
\* before the cache is looked up.
OnEchoRequestEarlyWrite(f, extra_buf, cache) ==
    LET dest_addr == get(cache, src_nl_addr(f))
    IN  IF ~f.wellFormed THEN [action |-> Nop, extra_buf |-> extra_buf]
        ELSE IF dest_addr[1] = "None"
        THEN [ action    |-> Nop,
               extra_buf |-> data(PAN_ID, EXTENDED_ADDRESS, NoAddr) ]
        ELSE [ action    |-> [tag |-> "EchoReply",
                              mac |-> Reply(f, dest_addr[2])],
               extra_buf |-> Reply(f, dest_addr[2]) ]

\* Lines 315-352.  The result: the Action and the secondary buffer.
OnEchoRequest(f, extra_buf, cache) ==
    LET dest_addr == get(cache, src_nl_addr(f))
        reject    == [action |-> Nop, extra_buf |-> extra_buf]
    IN  IF ~f.wellFormed THEN reject
        ELSE IF dest_addr[1] = "None" THEN reject
        ELSE [ action    |-> [tag |-> "EchoReply",
                              mac |-> Reply(f, dest_addr[2])],
               extra_buf |-> Reply(f, dest_addr[2]) ]

\* on_new_frame with the cache updated after the message is dispatched:
\* the Echo Request branch looks the source up in the cache as it was.
on_new_frame_LateUpdate(bytes, extra_buf, cache, fullFirst) ==
    LET f       == bytes
        nothing == [action |-> Nop, buf |-> bytes,
                    extra_buf |-> extra_buf, cache |-> cache]
    IN  IF ~Accepted(f) THEN nothing
        ELSE LET updated == UpdateCache(cache, f, fullFirst)
                 ignored == [nothing EXCEPT !.cache = updated]
             IN  IF f.next_header # "Ipv6Icmp" THEN ignored
                 ELSE IF ~f.icmpOk THEN ignored
                 ELSE IF f.icmpType = "NeighborSolicitation"
                 THEN LET r == OnNeighborSolicitation(f, bytes)
                      IN  [ignored EXCEPT !.action = r.action, !.buf = r.buf]
                 ELSE IF f.icmpType = "EchoRequest"
                 THEN LET r == OnEchoRequest(f, extra_buf, cache)
                      IN  [ignored EXCEPT !.action = r.action,
                                          !.extra_buf = r.extra_buf]
                 ELSE ignored

(***************************************************************************)
(* The accesses of on_new_frame to its two buffers, in the order of the    *)
(* source.  `line` is the line of the access, `from` the line where the    *)
(* value written was read out of the request (0: not from the request).    *)
(***************************************************************************)

Read(line, what) ==
    [line |-> line, op |-> "read", buffer |-> "bytes", what |-> what,
     from |-> 0]

Reclaim(line) ==
    [line |-> line, op |-> "reclaim", buffer |-> "bytes", what |-> "buffer",
     from |-> 0]

Write(line, buffer, what, from) ==
    [line |-> line, op |-> "write", buffer |-> buffer, what |-> what,
     from |-> from]

\* Lines 283-308: the request buffer is taken back and the advertisement
\* written into it from the locals src_ll_addr, src_nl_addr, target_addr.
AdvertisementAccesses ==
    << Reclaim(283),
       Write(288, "bytes", "mac header", 155),
       Write(297, "bytes", "neighbor advertisement", 180),
       Write(306, "bytes", "target", 267) >>

\* SolicitationAccesses with the target of a solicitation that is to be
\* answered read out of the message after the buffer is taken back.
SolicitationAccessesLateTarget(f) ==
    IF ~HopLimitOk(f) THEN <<>>
    ELSE <<Read(228, "neighbor solicitation")>> \o
    IF ~f.wellFormed THEN <<>>
    ELSE <<Read(237, "checksum")>> \o
    IF ~ChecksumOk(f) THEN <<>>
    ELSE IF is_unspecified(src_nl_addr(f))
            /\ ~is_solicited_node(dest_nl_addr(f))
    THEN <<>>
    ELSE (IF is_unspecified(src_nl_addr(f))
          THEN <<Read(257, "source link-layer option")>> ELSE <<>>) \o
    IF ~UnspecifiedSourceOk(f) THEN <<>>
    ELSE IF f.target # our_nl_addr
            \/ is_unspecified(src_nl_addr(f)) THEN <<Read(267, "target")>>
    ELSE << Reclaim(283),
            Write(288, "bytes", "mac header", 155),
            Write(297, "bytes", "neighbor advertisement", 180),
            Read(267, "target"),
            Write(306, "bytes", "target", 267) >>

\* Lines 217-313.
SolicitationAccesses(f) ==
    IF ~HopLimitOk(f) THEN <<>>
    ELSE <<Read(228, "neighbor solicitation")>> \o
    IF ~f.wellFormed THEN <<>>
    ELSE <<Read(237, "checksum")>> \o
    IF ~ChecksumOk(f) THEN <<>>
    ELSE IF is_unspecified(src_nl_addr(f))
            /\ ~is_solicited_node(dest_nl_addr(f))
    THEN <<>>
    ELSE (IF is_unspecified(src_nl_addr(f))
          THEN <<Read(257, "source link-layer option")>> ELSE <<>>) \o
    IF ~UnspecifiedSourceOk(f) THEN <<>>
    ELSE <<Read(267, "target")>> \o
    IF ~TargetIsOurs(f) THEN <<>>
    ELSE IF is_unspecified(src_nl_addr(f)) THEN <<>>
    ELSE AdvertisementAccesses

\* Lines 315-352: the reply is written into the secondary buffer while
\* identifier, sequence number and payload are read out of the request.
EchoAccesses(f, cache) ==
    <<Read(318, "echo request")>> \o
    IF ~f.wellFormed THEN <<>>
    ELSE IF get(cache, src_nl_addr(f))[1] = "None" THEN <<>>
    ELSE << Write(336, "extra_buf", "mac header", 0),
            Write(345, "extra_buf", "echo reply", 184),
            Read(346, "identifier"),
            Write(346, "extra_buf", "identifier", 346),
            Read(347, "sequence number"),
            Write(347, "extra_buf", "sequence number", 347),
            Read(348, "payload"),
            Write(348, "extra_buf", "payload", 348) >>

\* Lines 199-368, `cache` being the cache after line 194.
MessageAccesses(f, cache) ==
    <<Read(199, "next header")>> \o
    IF f.next_header # "Ipv6Icmp" THEN <<>>
    ELSE <<Read(204, "hop limit"), Read(205, "icmpv6 message")>> \o
    IF ~f.icmpOk THEN <<>>
    ELSE <<Read(216, "type")>> \o
    IF f.icmpType = "NeighborSolicitation" THEN SolicitationAccesses(f)
    ELSE IF f.icmpType = "EchoRequest" THEN EchoAccesses(f, cache)
    ELSE <<>>

\* Lines 127-369.
Accesses(f, cache, fullFirst) ==
    <<Read(127, "mac frame")>> \o
    IF ~f.macOk THEN <<>>
    ELSE <<Read(137, "type")>> \o
    IF f.type # "Data" THEN <<>>
    ELSE <<Read(143, "security enabled")>> \o
    IF f.security THEN <<>>
    ELSE <<Read(149, "intra-PAN")>> \o
    IF ~f.intraPan THEN <<>>
    ELSE <<Read(155, "link-layer source")>> \o
    IF f.src_ll = NoAddr THEN <<>>
    ELSE <<Read(162, "link-layer destination")>> \o
    IF f.dest_ll = NoAddr THEN <<>>
    ELSE <<Read(170, "iphc packet")>> \o
    IF ~f.iphcOk THEN <<>>
    ELSE <<Read(180, "source"), Read(184, "destination")>> \o
         MessageAccesses(f, UpdateCache(cache, f, fullFirst))

\* on_new_frame without the test of the next header (lines 199-201): the
\* payload of every accepted frame is taken for an ICMPv6 message.
on_new_frame_AnyNextHeader(bytes, extra_buf, cache, fullFirst) ==
    LET f       == bytes
        nothing == [action |-> Nop, buf |-> bytes,
                    extra_buf |-> extra_buf, cache |-> cache]
    IN  IF ~Accepted(f) THEN nothing
        ELSE LET updated == UpdateCache(cache, f, fullFirst)
                 ignored == [nothing EXCEPT !.cache = updated]
             IN  IF ~f.icmpOk THEN ignored
                 ELSE IF f.icmpType = "NeighborSolicitation"
                 THEN LET r == OnNeighborSolicitation(f, bytes)
                      IN  [ignored EXCEPT !.action = r.action, !.buf = r.buf]
                 ELSE IF f.icmpType = "EchoRequest"
                 THEN LET r == OnEchoRequest(f, extra_buf, updated)
                      IN  [ignored EXCEPT !.action = r.action,
                                          !.extra_buf = r.extra_buf]
                 ELSE ignored

\* fn on_new_frame(bytes, extra_buf, cache) -> Action, lines 122-369.
\* The result: the Action, and the two buffers and the cache as the call
\* leaves them.
on_new_frame(bytes, extra_buf, cache, fullFirst) ==
    LET f       == bytes
        nothing == [action |-> Nop, buf |-> bytes,
                    extra_buf |-> extra_buf, cache |-> cache]
    IN  IF ~Accepted(f) THEN nothing
        ELSE LET updated == UpdateCache(cache, f, fullFirst)
                 ignored == [nothing EXCEPT !.cache = updated]
             IN  IF f.next_header # "Ipv6Icmp" THEN ignored
                 ELSE IF ~f.icmpOk THEN ignored
                 ELSE IF f.icmpType = "NeighborSolicitation"
                 THEN LET r == OnNeighborSolicitation(f, bytes)
                      IN  [ignored EXCEPT !.action = r.action, !.buf = r.buf]
                 ELSE IF f.icmpType = "EchoRequest"
                 THEN LET r == OnEchoRequest(f, extra_buf, updated)
                      IN  [ignored EXCEPT !.action = r.action,
                                          !.extra_buf = r.extra_buf]
                 ELSE ignored

(***************************************************************************)
(* src/src/udp.rs: the UDP packet over a byte buffer.                      *)
(*                                                                         *)
(* A buffer is a record [len, data]: `len` is the length of the slice and  *)
(* `data` its first Min(len, MaxBuf) bytes; every byte past `data` is      *)
(* zero.  Lengths beyond the range of u16 are thereby within reach.        *)
(* Indices are those of the source and start at 0.                         *)
(***************************************************************************)

\* Bytes of a buffer that are kept one by one.
MaxBuf == 11

\* Calls on one packet after its construction.
MaxOps == 3

\* Bytes of a data slice handed to set_payload that are kept one by one.
MaxData == 3

\* Lines 18-22: where the fields start.
SOURCE == 0
DESTINATION == 2
LENGTH == 4
CHECKSUM == 6
PAYLOAD == 8

\* Line 25.
HEADER_SIZE == PAYLOAD

\* Line 96.
NEXT_HEADER == 17

\* Line 225: u16::MAX.
U16_MAX == 65535

Min(a, b) == IF a < b THEN a ELSE b

\* Arithmetic in u16.
U16(x) == x % (2^16)

\* bytes[i]
at(b, i) == IF i < Len(b.data) THEN b.data[i + 1] ELSE 0

\* The slice of `n` bytes that starts with the bytes of `s`, zero after.
Slice(n, s) ==
    [len |-> n,
     data |-> [i \in 1..Min(n, MaxBuf) |-> IF i <= Len(s) THEN s[i] ELSE 0]]

\* NE::read_u16(&bytes[r..r + 2])
read_u16(b, r) == at(b, r) * 256 + at(b, r + 1)

\* NE::write_u16(&mut bytes[r..r + 2], v)
write_u16(b, r, v) ==
    [b EXCEPT !.data = [i \in 1..Len(b.data) |->
                          IF i = r + 1 THEN v \div 256
                          ELSE IF i = r + 2 THEN v % 256
                          ELSE b.data[i]]]

\* owning_slice::Truncate::truncate: the first `l` bytes, when the buffer
\* is longer.
buffer_truncate(b, l) ==
    IF l < b.len
    THEN [len |-> l, data |-> SubSeq(b.data, 1, Min(l, Len(b.data)))]
    ELSE b

\* Lines 59-76.  A Packet is its buffer.
get_source(p) == read_u16(p, SOURCE)
get_destination(p) == read_u16(p, DESTINATION)
get_length(p) == read_u16(p, LENGTH)
get_checksum(p) == read_u16(p, CHECKSUM)

\* Lines 79-81.
len(p) == get_length(p)

\* Lines 90-92 and 140-142.
as_bytes(p) == p

\* Lines 85-87: as_slice()[8..]
payload(p) ==
    [len |-> p.len - PAYLOAD,
     data |-> SubSeq(p.data, PAYLOAD + 1, Len(p.data))]

\* Lines 150-152, in u16.
payload_len(p) == U16(get_length(p) - HEADER_SIZE)

\* parse without the test of the Length field against the buffer (line 50,
\* second disjunct).
parseAnyLength(bytes) ==
    IF bytes.len < HEADER_SIZE
    THEN [tag |-> "Err", buffer |-> bytes]
    ELSE IF get_length(bytes) < HEADER_SIZE
    THEN [tag |-> "Err", buffer |-> bytes]
    ELSE [tag |-> "Ok", buffer |-> bytes]

\* Lines 41-55.
parse(bytes) ==
    IF bytes.len < HEADER_SIZE
    THEN [tag |-> "Err", buffer |-> bytes]
    ELSE IF get_length(bytes) < HEADER_SIZE \/ get_length(bytes) > bytes.len
    THEN [tag |-> "Err", buffer |-> bytes]
    ELSE [tag |-> "Ok", buffer |-> bytes]

\* Lines 101-103: the words of one address (16 bytes), from word `i` on.
RECURSIVE AddrSum(_, _)
AddrSum(a, i) ==
    IF i = 8 THEN 0
    ELSE a[2 * i + 1] * 256 + a[2 * i + 2] + AddrSum(a, i + 1)

\* Lines 119-123: the chunk `i` of as_slice().chunks(2).
Chunk(p, i) ==
    IF 2 * i + 1 = p.len THEN at(p, 2 * i) * 256 ELSE read_u16(p, 2 * i)

\* MessageSum without the `continue` of lines 114-117: the Checksum field
\* is summed as well.
RECURSIVE MessageSumAll(_, _)
MessageSumAll(p, i) ==
    IF 2 * i >= Len(p.data) THEN 0
    ELSE Chunk(p, i) + MessageSumAll(p, i + 1)

\* Lines 113-124: the chunks from `i` on, that of the Checksum field left
\* out.  The chunks past `data` are zero and add nothing.
RECURSIVE MessageSum(_, _)
MessageSum(p, i) ==
    IF 2 * i >= Len(p.data) THEN 0
    ELSE (IF i = 3 THEN 0 ELSE Chunk(p, i)) + MessageSum(p, i + 1)

\* Lines 127-129.
RECURSIVE Fold(_)
Fold(sum) ==
    IF sum \div (2^16) # 0
    THEN Fold((sum % (2^16)) + (sum \div (2^16)))
    ELSE sum

\* Lines 95-132.  `sum` is a u32; over the buffers here, whose bytes past
\* `data` are zero, it stays below 2^22 and never wraps.
compute_checksum(p, src, dest) ==
    LET pseudo == AddrSum(src, 0) + AddrSum(dest, 0)
        length == p.len
        sum1   == pseudo + (length \div (2^16))
        sum2   == sum1 + (length % (2^16))
        sum3   == sum2 + NEXT_HEADER
        sum4   == sum3 + MessageSum(p, 0)
    IN  U16_MAX - U16(Fold(sum4))

\* Lines 135-137.
verify_ipv6_checksum(p, src, dest) ==
    compute_checksum(p, src, dest) = get_checksum(p)

\* Lines 161-182.
set_source(p, port) == write_u16(p, SOURCE, port)
set_destination(p, port) == write_u16(p, DESTINATION, port)
set_length(p, l) == write_u16(p, LENGTH, l)
set_checksum(p, checksum) == write_u16(p, CHECKSUM, checksum)
zero_checksum(p) == set_checksum(p, 0)

\* Lines 191-194.
update_ipv6_checksum(p, src, dest) ==
    set_checksum(p, compute_checksum(p, src, dest))

\* The buffer of a packet that was not made.
NoBuffer == [len |-> 0, data |-> <<>>]

\* new without set_checksum(0) of line 229.
newKeepingChecksum(buffer) ==
    IF buffer.len < HEADER_SIZE
    THEN [tag |-> "None", buffer |-> NoBuffer]
    ELSE LET l == IF buffer.len > U16_MAX THEN U16_MAX ELSE buffer.len
         IN  [tag |-> "Some",
              buffer |-> set_length(buffer_truncate(buffer, l), l)]

\* Lines 220-233.
new(buffer) ==
    IF buffer.len < HEADER_SIZE
    THEN [tag |-> "None", buffer |-> NoBuffer]
    ELSE LET l == IF buffer.len > U16_MAX THEN U16_MAX ELSE buffer.len
         IN  [tag |-> "Some",
              buffer |-> set_length(set_checksum(buffer_truncate(buffer, l),
                                                 0), l)]

\* truncate without set_length of line 267.
truncateBufferOnly(p, l) ==
    IF l < payload_len(p)
    THEN buffer_truncate(p, U16(l + HEADER_SIZE))
    ELSE p

\* truncate without the test of line 264: the length is set to l + 8
\* whatever the payload length is.
truncateUnguarded(p, l) ==
    set_length(buffer_truncate(p, U16(l + HEADER_SIZE)),
               U16(l + HEADER_SIZE))

\* Lines 263-269.
truncate(p, l) ==
    IF l < payload_len(p)
    THEN set_length(buffer_truncate(p, U16(l + HEADER_SIZE)),
                    U16(l + HEADER_SIZE))
    ELSE p

\* Line 244: payload_mut().copy_from_slice(data), the lengths being equal.
copy_from_slice(p, d) ==
    [p EXCEPT !.data = [i \in 1..Len(p.data) |->
                          IF i > PAYLOAD THEN at(d, i - 1 - PAYLOAD)
                          ELSE p.data[i]]]

\* set_payload without the truncate of line 243: the data is copied to
\* the start of the payload.
set_payloadNoTruncate(p, d) ==
    IF d.len > U16_MAX THEN [tag |-> "Panic", buffer |-> p]
    ELSE IF payload_len(p) < d.len THEN [tag |-> "None", buffer |-> p]
    ELSE [tag |-> "Some",
          buffer |-> [p EXCEPT !.data = [i \in 1..Len(p.data) |->
                        IF i > PAYLOAD /\ i <= PAYLOAD + d.len
                        THEN at(d, i - 1 - PAYLOAD)
                        ELSE p.data[i]]]]

\* Lines 237-247.  "Panic": `unwrap` of line 238 on a slice longer than
\* u16::MAX, or copy_from_slice of line 244 on slices of two lengths.
set_payload(p, d) ==
    IF d.len > U16_MAX THEN [tag |-> "Panic", buffer |-> p]
    ELSE IF payload_len(p) < d.len THEN [tag |-> "None", buffer |-> p]
    ELSE LET t == truncate(p, d.len)
         IN  IF t.len - PAYLOAD # d.len
             THEN [tag |-> "Panic", buffer |-> t]
             ELSE [tag |-> "Some", buffer |-> copy_from_slice(t, d)]

(***************************************************************************)
(* One udp::Packet: its construction and the calls on it.                  *)
(***************************************************************************)

VARIABLES
    ctor,       \* the constructor called, its argument and what it returned
    packet,     \* the buffer of the packet; NoBuffer while there is none
    last,       \* the last call on the packet, its arguments and its result
    nOps,       \* calls on the packet
    built       \* how far new, set_source, set_destination, set_payload
                \* have been called in this order, and with what

udpVars == <<ctor, packet, last, nOps, built>>

ZeroAddr == [i \in 1..16 |-> 0]

NoCtor == [via |-> "none", bytes |-> NoBuffer, tag |-> "none",
           returned |-> NoBuffer]

NoLast == [name |-> "none", port |-> 0, n |-> 0, data |-> NoBuffer,
           src |-> ZeroAddr, dest |-> ZeroAddr, pre |-> NoBuffer,
           tag |-> "none"]

NotBuilt == [stage |-> 0, s |-> 0, d |-> 0, p |-> NoBuffer]

\* No packet is under construction.
UdpIdle ==
    /\ ctor = NoCtor
    /\ packet = NoBuffer
    /\ last = NoLast
    /\ nOps = 0
    /\ built = NotBuilt

(***************************************************************************)
(* fn run(radio, led) -> Option<!>: the dispatch loop.                     *)
(***************************************************************************)

VARIABLES
    pc,         \* where `run` is: "receive", "process", "transmit", "halted"
    buf,        \* the request buffer
    extra_buf,  \* the secondary buffer
    cache,      \* the neighbor cache
    action,     \* the Action on_new_frame returned in this iteration
    led,        \* the LED
    err,        \* the radio operation that failed: "none" while none has
    nRx,        \* frames received
    nCalls,     \* calls of on_new_frame
    nTx,        \* calls of radio.transmit
    call,       \* the arguments on_new_frame got in this iteration
    fullFirst   \* the build's FnvIndexMap::insert (see `insert`)

vars == <<pc, buf, extra_buf, cache, action, led, err, nRx, nCalls, nTx,
          call, fullFirst, ctor, packet, last, nOps, built>>

NoAction == [tag |-> "none", mac |-> NoFrame]

NoCall == [made |-> FALSE, bytes |-> Zeroes, extra_buf |-> Zeroes,
           cache |-> <<>>]

\* Lines 83-85, and `main` up to the call of `run`.
Init ==
    /\ pc = "receive"
    /\ buf = Zeroes
    /\ extra_buf = Zeroes
    /\ cache = <<>>
    /\ action = NoAction
    /\ led = FALSE
    /\ err = "none"
    /\ nRx = 0
    /\ nCalls = 0
    /\ nTx = 0
    /\ call = NoCall
    /\ fullFirst \in BOOLEAN
    /\ UdpIdle

\* Lines 88-93: radio.receive fills `buf` with a frame.  The Action of
\* the iteration before has been consumed by its match arm.
Receive ==
    /\ pc = "receive"
    /\ nRx < MaxFrames
    /\ \E f \in Frames : buf' = f
    /\ nRx' = nRx + 1
    /\ pc' = "process"
    /\ action' = NoAction
    /\ call' = NoCall
    /\ UNCHANGED <<extra_buf, cache, led, err, nCalls, nTx, fullFirst>>
    /\ UNCHANGED udpVars

\* Lines 88-91: radio.receive fails, `?` leaves the loop.
ReceiveFailed ==
    /\ pc = "receive"
    /\ err' = "receive"
    /\ pc' = "halted"
    /\ UNCHANGED <<buf, extra_buf, cache, action, led, nRx, nCalls, nTx,
                   call, fullFirst>>
    /\ UNCHANGED udpVars

\* Arm with Nop treated as a failure that leaves the loop.
ArmHaltOnNop(a) == IF a.tag = "Nop" THEN "halted" ELSE "transmit"

\* Arm with a transmit in every arm.
ArmAlwaysTransmit(a) == "transmit"

\* Lines 95-117: the arm of the match the Action selects.
Arm(a) == IF a.tag = "Nop" THEN "receive" ELSE "transmit"

\* Line 95: the call of on_new_frame and the match on its result.
Process ==
    /\ pc = "process"
    /\ LET r == on_new_frame(buf, extra_buf, cache, fullFirst)
       IN  /\ action' = r.action
           /\ buf' = r.buf
           /\ extra_buf' = r.extra_buf
           /\ cache' = r.cache
           /\ pc' = Arm(r.action)
    /\ call' = [made |-> TRUE, bytes |-> buf, extra_buf |-> extra_buf,
                cache |-> cache]
    /\ nCalls' = nCalls + 1
    /\ UNCHANGED <<led, err, nRx, nTx, fullFirst>>
    /\ UNCHANGED udpVars

\* Line 99: the LED is toggled before an Echo Reply is sent.
Toggle(a, l) == IF a.tag = "EchoReply" THEN ~l ELSE l

\* Lines 96-105 and 109-116: the frame of the Action is transmitted.
Transmit ==
    /\ pc = "transmit"
    /\ led' = Toggle(action, led)
    /\ nTx' = nTx + 1
    /\ pc' = "receive"
    /\ UNCHANGED <<buf, extra_buf, cache, action, err, nRx, nCalls, call,
                   fullFirst>>
    /\ UNCHANGED udpVars

\* Lines 101-104 and 112-115: radio.transmit fails, `?` leaves the loop.
TransmitFailed ==
    /\ pc = "transmit"
    /\ led' = Toggle(action, led)
    /\ nTx' = nTx + 1
    /\ err' = "transmit"
    /\ pc' = "halted"
    /\ UNCHANGED <<buf, extra_buf, cache, action, nRx, nCalls, call,
                   fullFirst>>
    /\ UNCHANGED udpVars

Next ==
    \/ Receive
    \/ ReceiveFailed
    \/ Process
    \/ Transmit
    \/ TransmitFailed

Spec == Init /\ [][Next]_vars

(***************************************************************************)
(* The calls on one udp::Packet.                                           *)
(***************************************************************************)

\* Buffer contents: 1, 2, 3, ... and 255, 255, 255, ...
Ramp == [i \in 1..MaxBuf |-> i]
Ones == [i \in 1..MaxBuf |-> 255]

\* Buffer lengths: those kept byte by byte, u16::MAX and the one beyond.
Lens == (0..MaxBuf) \cup {U16_MAX, U16_MAX + 1}

\* Values of the Length field put into a buffer of `n` bytes.
Lengths(n) == {7, 8, 9, n - 1, n, n + 1} \cap (0..U16_MAX)

\* The buffers handed to `new`, which overwrites the Length field.
Fills == {Slice(n, s) : n \in Lens, s \in {Ramp, Ones}}

\* The buffers handed to `parse`.
Buffers ==
    Fills
    \cup UNION {{set_length(Slice(n, s), l) : l \in Lengths(n)} :
                  n \in {m \in Lens : m >= HEADER_SIZE}, s \in {Ramp, Ones}}

\* Ports: those of tests::construct.
Ports == {0, 1337}

\* Addresses: those of the tests, IPv4-mapped; all ones.
IP_SRC == <<0, 0, 0, 0, 0, 0, 0, 0, 0, 0, 255, 255, 192, 168, 0, 33>>
IP_DST == <<0, 0, 0, 0, 0, 0, 0, 0, 0, 0, 255, 255, 192, 168, 0, 1>>
OnesAddr == [i \in 1..16 |-> 255]
AddrPairs == {<<IP_SRC, IP_DST>>, <<OnesAddr, OnesAddr>>}

\* Data slices: the first MaxData bytes of MESSAGE ("Hello, world!\n"),
\* cut to 0..MaxData bytes, or followed by zeroes up to the longest slice
\* that fits a packet and up to one longer than u16::MAX.  Copied into a
\* payload, the bytes that are not zero stay within `data` of the packet
\* (PAYLOAD + MaxData <= MaxBuf).
MESSAGE == <<72, 101, 108, 108, 111, 44, 32, 119, 111, 114, 108, 100, 33, 10>>
Datas ==
    {Slice(n, SubSeq(MESSAGE, 1, MaxData)) :
       n \in (0..MaxData) \cup {U16_MAX - HEADER_SIZE, U16_MAX + 1}}

\* Payload lengths handed to `truncate`.
TruncateLens == (0..MaxData) \cup {U16_MAX}

InitUdp ==
    /\ UdpIdle
    /\ pc = "receive"
    /\ buf = Zeroes
    /\ extra_buf = Zeroes
    /\ cache = <<>>
    /\ action = NoAction
    /\ led = FALSE
    /\ err = "none"
    /\ nRx = 0
    /\ nCalls = 0
    /\ nTx = 0
    /\ call = NoCall
    /\ fullFirst = FALSE

firmwareVars == <<pc, buf, extra_buf, cache, action, led, err, nRx, nCalls,
                  nTx, call, fullFirst>>

\* There is a packet, and no call on it has panicked.
Live ==
    /\ ctor.tag \in {"Ok", "Some"}
    /\ last.tag # "Panic"
    /\ nOps < MaxOps

\* Packet::parse(bytes)
Parse(bytes) ==
    /\ ctor.via = "none"
    /\ LET r == parse(bytes)
       IN  /\ ctor' = [via |-> "parse", bytes |-> bytes, tag |-> r.tag,
                       returned |-> IF r.tag = "Err" THEN r.buffer
                                    ELSE NoBuffer]
           /\ packet' = IF r.tag = "Ok" THEN r.buffer ELSE NoBuffer
    /\ UNCHANGED <<last, nOps, built, firmwareVars>>

\* Packet::new(buffer)
New(buffer) ==
    /\ ctor.via = "none"
    /\ LET r == new(buffer)
       IN  /\ ctor' = [via |-> "new", bytes |-> buffer, tag |-> r.tag,
                       returned |-> NoBuffer]
           /\ packet' = r.buffer
           /\ built' = IF r.tag = "Some" THEN [NotBuilt EXCEPT !.stage = 1]
                       ELSE NotBuilt
    /\ UNCHANGED <<last, nOps, firmwareVars>>

\* A call on the packet that returns nothing.
Called(name, after) ==
    /\ Live
    /\ packet' = after
    /\ nOps' = nOps + 1
    /\ UNCHANGED <<ctor, firmwareVars>>

\* packet.set_source(port)
SetSource(port) ==
    /\ Called("set_source", set_source(packet, port))
    /\ last' = [NoLast EXCEPT !.name = "set_source", !.port = port,
                              !.pre = packet, !.tag = "()"]
    /\ built' = IF built.stage = 1
                THEN [built EXCEPT !.stage = 2, !.s = port]
                ELSE NotBuilt

\* packet.set_destination(port)
SetDestination(port) ==
    /\ Called("set_destination", set_destination(packet, port))
    /\ last' = [NoLast EXCEPT !.name = "set_destination", !.port = port,
                              !.pre = packet, !.tag = "()"]
    /\ built' = IF built.stage = 2
                THEN [built EXCEPT !.stage = 3, !.d = port]
                ELSE NotBuilt

\* packet.zero_checksum()
ZeroChecksum ==
    /\ Called("zero_checksum", zero_checksum(packet))
    /\ last' = [NoLast EXCEPT !.name = "zero_checksum", !.pre = packet,
                              !.tag = "()"]
    /\ built' = NotBuilt

\* packet.update_ipv6_checksum(src, dest)
UpdateChecksum(src, dest) ==
    /\ Called("update_ipv6_checksum", update_ipv6_checksum(packet, src, dest))
    /\ last' = [NoLast EXCEPT !.name = "update_ipv6_checksum", !.src = src,
                              !.dest = dest, !.pre = packet, !.tag = "()"]
    /\ built' = NotBuilt

\* packet.verify_ipv6_checksum(src, dest)
VerifyChecksum(src, dest) ==
    /\ Called("verify_ipv6_checksum", packet)
    /\ last' = [NoLast EXCEPT
                  !.name = "verify_ipv6_checksum", !.src = src,
                  !.dest = dest, !.pre = packet,
                  !.tag = IF verify_ipv6_checksum(packet, src, dest)
                          THEN "true" ELSE "false"]
    /\ built' = NotBuilt

\* packet.compute_checksum(src, dest)
ComputeChecksum(src, dest) ==
    /\ Called("compute_checksum", packet)
    /\ last' = [NoLast EXCEPT
                  !.name = "compute_checksum", !.src = src, !.dest = dest,
                  !.pre = packet, !.n = compute_checksum(packet, src, dest),
                  !.tag = "u16"]
    /\ built' = NotBuilt

\* packet.set_payload(data)
SetPayload(d) ==
    /\ Called("set_payload", set_payload(packet, d).buffer)
    /\ last' = [NoLast EXCEPT !.name = "set_payload", !.data = d,
                              !.pre = packet,
                              !.tag = set_payload(packet, d).tag]
    /\ built' = IF built.stage = 3 /\ set_payload(packet, d).tag = "Some"
                THEN [built EXCEPT !.stage = 4, !.p = d]
                ELSE NotBuilt

\* packet.truncate(n)
Truncate(n) ==
    /\ Called("truncate", truncate(packet, n))
    /\ last' = [NoLast EXCEPT !.name = "truncate", !.n = n, !.pre = packet,
                              !.tag = "()"]
    /\ built' = NotBuilt

NextUdp ==
    \/ \E b \in Buffers : Parse(b)
    \/ \E b \in Fills : New(b)
    \/ \E port \in Ports : SetSource(port)
    \/ \E port \in Ports : SetDestination(port)
    \/ ZeroChecksum
    \/ \E a \in AddrPairs : UpdateChecksum(a[1], a[2])
    \/ \E a \in AddrPairs : VerifyChecksum(a[1], a[2])
    \/ \E a \in AddrPairs : ComputeChecksum(a[1], a[2])
    \/ \E d \in Datas : SetPayload(d)
    \/ \E n \in TruncateLens : Truncate(n)

SpecUdp == InitUdp /\ [][NextUdp]_vars

(***************************************************************************)
(* Properties.  They are stated over the state after a call of             *)
(* on_new_frame: `call` holds what the call was given, `action`, `buf`,    *)
(* `extra_buf` and `cache` what it left.                                   *)
(***************************************************************************)

\* The frame on_new_frame was given.
Request == call.bytes

\* The frame carries an ICMPv6 message of type `t`.
IsIcmp(f, t) ==
    /\ Accepted(f)
    /\ f.next_header = "Ipv6Icmp"
    /\ f.icmpOk
    /\ f.icmpType = t

Returned(tag) == call.made /\ action.tag = tag

C2_HopLimitEnforced ==
    ( /\ call.made
      /\ IsIcmp(Request, "NeighborSolicitation")
      /\ Request.hop_limit # 255 )
    => action.tag = "Nop"

\* A solicitation for the node's address that is valid in everything but
\* its hop limit was turned down.
C2_Witness ==
    /\ call.made
    /\ IsIcmp(Request, "NeighborSolicitation")
    /\ Request.hop_limit # 255
    /\ Request.wellFormed
    /\ ChecksumOk(Request)
    /\ ~is_unspecified(src_nl_addr(Request))
    /\ TargetIsOurs(Request)
    /\ action.tag = "Nop"

\* The frame is a Neighbor Solicitation that lines 217-276 let through.
ValidSolicitation(f) ==
    /\ IsIcmp(f, "NeighborSolicitation")
    /\ f.hop_limit = 255
    /\ f.wellFormed
    /\ verify_checksum(f, src_nl_addr(f), dest_nl_addr(f))
    /\ ~is_unspecified(src_nl_addr(f))
    /\ f.target = our_nl_addr

\* C3: a valid Neighbor Solicitation for the node's own address, from a
\* source other than the unspecified address, yields
\* SolicitedNeighborAdvertisement; the frame goes from the node's extended
\* address to the solicitation's link-layer source, from the node's
\* network address to the solicitation's network source, with override
\* and solicited set, router clear, the solicitation's target and the
\* node's extended address as target link-layer option.
C3_SolicitationAnswered ==
    (call.made /\ ValidSolicitation(Request))
    => /\ action.tag = "SolicitedNeighborAdvertisement"
       /\ action.mac.icmpType = "NeighborAdvertisement"
       /\ action.mac.mac.dest_ll = Request.src_ll
       /\ action.mac.mac.src_ll = EXTENDED_ADDRESS
       /\ action.mac.src = our_nl_addr
       /\ action.mac.dest = src_nl_addr(Request)
       /\ action.mac.override = TRUE
       /\ action.mac.solicited = TRUE
       /\ action.mac.router = FALSE
       /\ action.mac.target = Request.target
       /\ action.mac.target_ll = EXTENDED_ADDRESS

\* A valid solicitation whose source address is carried in line, sent from
\* a link-layer address it is not derived from, was answered.
C3_Witness ==
    /\ call.made
    /\ ValidSolicitation(Request)
    /\ Request.src[1] = "Complete"
    /\ Request.src_ll = ExtB
    /\ action.tag = "SolicitedNeighborAdvertisement"
    /\ pc = "transmit"

\* C4: SolicitedNeighborAdvertisement is returned only for a Neighbor
\* Solicitation whose checksum verifies against the reconstructed source
\* and destination, whose source is not the unspecified address and whose
\* target is the node's address; a solicitation that fails one of these
\* yields Nop.
C4_AdvertisementOnlyIfValid ==
    /\ Returned("SolicitedNeighborAdvertisement")
         => /\ IsIcmp(Request, "NeighborSolicitation")
            /\ verify_checksum(Request, src_nl_addr(Request),
                               dest_nl_addr(Request))
            /\ ~is_unspecified(src_nl_addr(Request))
            /\ Request.target = our_nl_addr
    /\ ( /\ call.made
         /\ IsIcmp(Request, "NeighborSolicitation")
         /\ \/ ~verify_checksum(Request, src_nl_addr(Request),
                                dest_nl_addr(Request))
            \/ is_unspecified(src_nl_addr(Request))
            \/ Request.target # our_nl_addr )
         => action.tag = "Nop"

\* A duplicate address detection probe for the node's own address (source
\* unspecified, destination solicited-node multicast, no source link-layer
\* option, valid checksum, hop limit 255) was turned down.
C4_Witness ==
    /\ call.made
    /\ IsIcmp(Request, "NeighborSolicitation")
    /\ Request.hop_limit = 255
    /\ Request.wellFormed
    /\ verify_checksum(Request, src_nl_addr(Request), dest_nl_addr(Request))
    /\ is_unspecified(src_nl_addr(Request))
    /\ is_solicited_node(dest_nl_addr(Request))
    /\ Request.source_ll = NoAddr
    /\ Request.target = our_nl_addr
    /\ action.tag = "Nop"

\* The call met a full cache with a link-local source that is not a key.
InsertFails ==
    /\ call.made
    /\ Accepted(Request)
    /\ is_link_local(src_nl_addr(Request))
    /\ is_full(call.cache)
    /\ ~contains_key(call.cache, src_nl_addr(Request))

\* C5: the cache never holds more than CACHE_SIZE entries and its keys are
\* pairwise distinct; when a frame with a link-local source that is not a
\* key meets a full cache the cache is left as it was (nothing is
\* evicted), the message is still dispatched (a valid solicitation is
\* answered) and the loop goes on.
C5_CacheBounded ==
    /\ Len(cache) <= CACHE_SIZE
    /\ Cardinality(Keys(cache)) = Len(cache)
    /\ InsertFails
         => /\ cache = call.cache
            /\ ValidSolicitation(Request)
                 => action.tag = "SolicitedNeighborAdvertisement"
            /\ pc = "halted" => err # "none"

\* A valid solicitation from a link-local address that is not cached met
\* a full cache: the cache was left alone and the solicitation answered.
C5_Witness ==
    /\ InsertFails
    /\ ValidSolicitation(Request)
    /\ Len(cache) = CACHE_SIZE
    /\ cache = call.cache
    /\ action.tag = "SolicitedNeighborAdvertisement"
    /\ pc = "receive"
    /\ nTx = 1

C7_OnlyRadioErrorsHalt ==
    [][ /\ pc' = "halted" <=> err' # "none"
        /\ err' # err => pc \in {"receive", "transmit"}
        /\ pc = "process"
             => /\ pc' # "halted"
                /\ nTx' = nTx
                /\ action'.tag = "Nop" => pc' = "receive"
        /\ (pc = "receive" /\ call.made /\ action.tag = "Nop")
             => nTx' = nTx
      ]_vars

\* A frame was turned down (Nop) and the loop received the next one.
C7_Witness ==
    /\ pc = "receive"
    /\ err = "none"
    /\ nRx = 2
    /\ nTx = 0
    /\ call.made
    /\ ~Accepted(Request)
    /\ action.tag = "Nop"

\* C8: a receive is followed by one call of on_new_frame, which returns
\* one Action, and then by one transmit if the Action is EchoReply or
\* SolicitedNeighborAdvertisement and by none if it is Nop, before the
\* next receive; transmits never outnumber receives.
C8_OneActionPerFrame ==
    [][ /\ pc = "receive"
             => /\ pc' \in {"process", "halted"}
                /\ pc' = "process" <=> nRx' = nRx + 1
                /\ nCalls' = nCalls /\ nTx' = nTx
        /\ pc = "process"
             => /\ nCalls' = nCalls + 1 /\ nRx' = nRx /\ nTx' = nTx
                /\ action'.tag \in
                     {"Nop", "EchoReply", "SolicitedNeighborAdvertisement"}
                /\ action'.tag = "Nop" => pc' = "receive"
                /\ action'.tag # "Nop" => pc' = "transmit"
        /\ pc = "transmit"
             => /\ nTx' = nTx + 1 /\ nRx' = nRx /\ nCalls' = nCalls
                /\ pc' \in {"receive", "halted"}
                /\ action' = action /\ action.tag # "Nop"
        /\ pc # "halted"
        /\ nTx' <= nCalls' /\ nCalls' <= nRx' /\ nRx' <= nCalls' + 1
        /\ pc' = "process" <=> nRx' = nCalls' + 1
      ]_vars

\* Two frames were received; the first was answered, the second was not.
C8_Witness ==
    /\ pc = "receive"
    /\ nRx = 2
    /\ nCalls = 2
    /\ nTx = 1
    /\ call.made
    /\ action.tag = "Nop"

\* C9: an EchoReply is an intra-PAN Data frame with the node's PAN id,
\* from the node's extended address to the link-layer address the cache
\* holds for the request's source, from the request's network destination
\* to the request's network source, with the request's identifier,
\* sequence number and payload.
C9_EchoReplyFields ==
    Returned("EchoReply")
    => /\ IsIcmp(Request, "EchoRequest")
       /\ action.mac.icmpType = "EchoReply"
       /\ action.mac.mac.type = "Data"
       /\ action.mac.mac.intraPan = TRUE
       /\ action.mac.mac.pan_id = PAN_ID
       /\ action.mac.mac.src_ll = EXTENDED_ADDRESS
       /\ <<"Some", action.mac.mac.dest_ll>>
            = get(cache, src_nl_addr(Request))
       /\ action.mac.src = dest_nl_addr(Request)
       /\ action.mac.dest = src_nl_addr(Request)
       /\ action.mac.identifier = Request.identifier
       /\ action.mac.sequence_number = Request.sequence_number
       /\ action.mac.payload = Request.payload

\* An Echo Request with a payload, its source address carried in line and
\* its destination a multicast address, was answered.
C9_Witness ==
    /\ Returned("EchoReply")
    /\ Request.src[1] = "Complete"
    /\ Request.dest[1] = "Complete"
    /\ Request.payload # <<>>
    /\ pc = "transmit"

\* C10: a call that returns Nop leaves both buffers as they were, one that
\* returns SolicitedNeighborAdvertisement leaves the secondary buffer as
\* it was, one that returns EchoReply leaves the request buffer as it
\* was.
C10_BuffersWritten ==
    call.made
    => /\ action.tag = "Nop"
         => buf = call.bytes /\ extra_buf = call.extra_buf
       /\ action.tag = "SolicitedNeighborAdvertisement"
         => extra_buf = call.extra_buf /\ buf = action.mac
       /\ action.tag = "EchoReply"
         => buf = call.bytes /\ extra_buf = action.mac

\* An Echo Reply has replaced an earlier one in the secondary buffer while
\* the request buffer still holds the request.
C10_Witness ==
    /\ Returned("EchoReply")
    /\ call.extra_buf # Zeroes
    /\ extra_buf # call.extra_buf
    /\ buf = call.bytes

\* One of the tests of lines 127-178 turns the frame down.
Rejected(f) ==
    \/ ~f.macOk
    \/ f.type # "Data"
    \/ f.security
    \/ ~f.intraPan
    \/ f.src_ll = NoAddr
    \/ f.dest_ll = NoAddr
    \/ ~f.iphcOk

\* C11: a frame that fails MAC parsing, is not a Data frame, has security
\* enabled, is not intra-PAN, lacks a link-layer source or destination, or
\* whose payload fails IPHC parsing yields Nop and leaves the neighbor
\* cache as it was.
C11_RejectedFrameIgnored ==
    (call.made /\ Rejected(Request))
    => /\ action.tag = "Nop"
       /\ cache = call.cache

\* A frame with security enabled, otherwise a well-formed Echo Request
\* from a link-local source, met a cache with room: it was turned down
\* and the cache stayed empty.
C11_Witness ==
    /\ call.made
    /\ Request.security
    /\ Request.wellFormed
    /\ is_link_local(src_nl_addr(Request))
    /\ call.cache = <<>>
    /\ cache = <<>>
    /\ action.tag = "Nop"

\* C12: an Action other than Nop is returned only for a frame whose next
\* header is carried in line and is ICMPv6 and whose ICMPv6 message parses
\* and is a Neighbor Solicitation (SolicitedNeighborAdvertisement) or an
\* Echo Request (EchoReply).
C12_ReplyOnlyToSolicitationOrEcho ==
    /\ Returned("SolicitedNeighborAdvertisement")
         => /\ Request.next_header = "Ipv6Icmp"
            /\ Request.icmpOk
            /\ Request.icmpType = "NeighborSolicitation"
    /\ Returned("EchoReply")
         => /\ Request.next_header = "Ipv6Icmp"
            /\ Request.icmpOk
            /\ Request.icmpType = "EchoRequest"
    /\ ( /\ call.made
         /\ \/ Request.next_header # "Ipv6Icmp"
            \/ ~Request.icmpOk
            \/ Request.icmpType
                 \notin {"NeighborSolicitation", "EchoRequest"} )
         => action.tag = "Nop"

\* An Echo Reply message from a peer whose address is already cached was
\* not answered.
C12_Witness ==
    /\ call.made
    /\ ~Rejected(Request)
    /\ Request.next_header = "Ipv6Icmp"
    /\ Request.icmpOk
    /\ Request.icmpType = "EchoReply"
    /\ contains_key(call.cache, src_nl_addr(Request))
    /\ action.tag = "Nop"

(***************************************************************************)
(* The UDP packet: what its operations promise.                            *)
(***************************************************************************)

\* The bytes of two slices are the same.
SameBytes(a, b) ==
    /\ a.len = b.len
    /\ \A i \in 0..(MaxBuf + MaxData) : at(a, i) = at(b, i)

\* The big-endian 16-bit value at bytes 4..6 of a buffer of 6 bytes or more.
LengthField(b) == b.data[5] * 256 + b.data[6]

\* C13: parse on a buffer of n bytes succeeds if and only if n >= 8 and
\* the Length field L at bytes 4..6 satisfies 8 <= L <= n; when it fails
\* it returns the buffer it was given, same length and same bytes.
C13_ParseAcceptsWellFormed ==
    ctor.via = "parse"
    => /\ ctor.tag \in {"Ok", "Err"}
       /\ ctor.tag = "Ok"
            <=> /\ ctor.bytes.len >= 8
                /\ LengthField(ctor.bytes) >= 8
                /\ LengthField(ctor.bytes) <= ctor.bytes.len
       /\ ctor.tag = "Err"
            => /\ ctor.returned.len = ctor.bytes.len
               /\ ctor.returned.data = ctor.bytes.data
               /\ packet = NoBuffer

\* A buffer of at least 8 bytes whose Length field is one more than its
\* length was turned down and handed back.
C13_Witness ==
    /\ ctor.via = "parse"
    /\ ctor.bytes.len >= 8
    /\ LengthField(ctor.bytes) = ctor.bytes.len + 1
    /\ ctor.tag = "Err"
    /\ ctor.returned = ctor.bytes

\* Nothing but the two bytes of the Checksum field differs.
OnlyChecksumChanged(a, b) ==
    /\ a.len = b.len
    /\ Len(a.data) = Len(b.data)
    /\ \A i \in 1..Len(a.data) : i \notin {7, 8} => a.data[i] = b.data[i]

\* C14: update_ipv6_checksum(src, dest) changes no byte other than the
\* two of the Checksum field, and verify_ipv6_checksum(src, dest) called
\* right after it returns true, for buffers of odd and of even length.
C14_UpdateThenVerify ==
    [][ /\ last'.name = "update_ipv6_checksum"
             => OnlyChecksumChanged(last'.pre, packet')
        /\ ( /\ last.name = "update_ipv6_checksum"
             /\ last'.name = "verify_ipv6_checksum"
             /\ last'.src = last.src
             /\ last'.dest = last.dest )
             => last'.tag = "true" ]_vars

\* verify_ipv6_checksum returned true on a packet of odd length whose
\* Checksum field an earlier call had filled.
C14_Witness ==
    /\ last.name = "verify_ipv6_checksum"
    /\ last.tag = "true"
    /\ nOps >= 2
    /\ packet.len % 2 = 1
    /\ get_checksum(packet) \notin {0, get_checksum(ctor.bytes)}

\* The 16-bit ones'-complement sum of two words: the carry out of bit 15
\* is added back in.
OnesAdd(a, b) == IF a + b > U16_MAX THEN a + b - (U16_MAX + 1) + 1 ELSE a + b

\* The ones'-complement sum of the words of a sequence.
RECURSIVE OnesSum(_)
OnesSum(words) ==
    IF words = <<>> THEN 0 ELSE OnesAdd(Head(words), OnesSum(Tail(words)))

\* The 8 big-endian words of an address.
AddrWords(a) == [i \in 1..8 |-> a[2 * i - 1] * 256 + a[2 * i]]

\* The big-endian words of the first `l` bytes of a packet, the Checksum
\* word counted as zero, an odd last byte in the high octet of a last
\* word.  The words wholly past `data` are zero and are left out.
SegmentWords(p, l) ==
    [w \in 1..((Min(l, Len(p.data)) + 1) \div 2) |->
       IF w = 4 THEN 0
       ELSE at(p, 2 * w - 2) * 256
            + (IF 2 * w - 1 < l THEN at(p, 2 * w - 1) ELSE 0)]

\* The Internet checksum of the packet under the pseudo-header: its own
\* Length field as the upper-layer length, next header 17.
ReferenceChecksum(p, src, dest) ==
    LET l == LengthField(p)
    IN  U16_MAX - OnesSum(AddrWords(src) \o AddrWords(dest)
                          \o <<l \div (2^16), l % (2^16)>>
                          \o <<0, 17>>
                          \o SegmentWords(p, l))

\* C15: for every packet, built with new or accepted by parse, and every
\* pair of addresses, compute_checksum is the Internet checksum over the
\* pseudo-header (addresses, the value of the Length field, next header
\* 17) and the UDP segment of that length.
C15_ChecksumIsReference ==
    last.name = "compute_checksum"
    => last.n = ReferenceChecksum(last.pre, last.src, last.dest)

C17_SetPayloadFillsOrFails ==
    last.name = "set_payload"
    => IF last.data.len > LengthField(last.pre) - 8
       THEN /\ last.tag = "None"
            /\ packet = last.pre
       ELSE /\ last.tag = "Some"
            /\ LengthField(packet) = 8 + last.data.len
            /\ SameBytes(payload(packet), last.data)
            /\ get_source(packet) = get_source(last.pre)
            /\ get_destination(packet) = get_destination(last.pre)

Constructed(s, d, p) ==
    [len |-> 8 + p.len,
     data |-> [i \in 1..Min(8 + p.len, MaxBuf) |->
                 CASE i = 1 -> s \div 256
                   [] i = 2 -> s % 256
                   [] i = 3 -> d \div 256
                   [] i = 4 -> d % 256
                   [] i = 5 -> (8 + p.len) \div 256
                   [] i = 6 -> (8 + p.len) % 256
                   [] i \in {7, 8} -> 0
                   [] OTHER -> at(p, i - 9)]]

\* C19: after new, set_source(s), set_destination(d), set_payload(p), p
\* fitting, the bytes of the packet are s, d, 8 + |p|, zero, p, whatever
\* the buffer held; and parse of these bytes succeeds and gives back
\* source s, destination d, length 8 + |p| and payload p.
C19_ConstructThenParse ==
    built.stage = 4
    => /\ SameBytes(as_bytes(packet), Constructed(built.s, built.d, built.p))
       /\ LET r == parse(as_bytes(packet))
          IN  /\ r.tag = "Ok"
              /\ get_source(r.buffer) = built.s
              /\ get_destination(r.buffer) = built.d
              /\ get_length(r.buffer) = 8 + built.p.len
              /\ SameBytes(payload(r.buffer), built.p)

\* A packet was built over a buffer of 255s longer than it, with the
\* ports of tests::construct and a payload of two bytes.
C19_Witness ==
    /\ built.stage = 4
    /\ built.s = 0
    /\ built.d = 1337
    /\ built.p.len = 2
    /\ ctor.bytes.len > 10
    /\ at(ctor.bytes, 6) = 255
    /\ packet.len = 10

\* C23: a packet made by new over a buffer of n bytes, 8 <= n <= 65535,
\* has after any sequence of set_source, set_destination, zero_checksum,
\* update_ipv6_checksum, set_payload (successful or not) and truncate a
\* Length field that equals the visible length of its buffer, lies
\* between 8 and n, and is no larger than before the last call.
C23_LengthIsVisibleLength ==
    ( /\ ctor.via = "new"
      /\ ctor.tag = "Some"
      /\ ctor.bytes.len <= U16_MAX )
    => /\ LengthField(packet) = packet.len
       /\ HEADER_SIZE <= LengthField(packet)
       /\ LengthField(packet) <= ctor.bytes.len
       /\ last.name # "none"
            => /\ LengthField(packet) <= LengthField(last.pre)
               /\ packet.len <= last.pre.len

\* A packet made over 65535 bytes was cut short, and a set_payload of
\* more bytes than it then held was turned down.
C23_Witness ==
    /\ ctor.via = "new"
    /\ ctor.bytes.len = U16_MAX
    /\ nOps = MaxOps
    /\ last.name = "set_payload"
    /\ last.tag = "None"
    /\ last.data.len = 3
    /\ packet.len = 10
    /\ LengthField(packet) = 10

(***************************************************************************)
(* The order of on_new_frame's accesses to its buffers.                    *)
(***************************************************************************)

\* What on_new_frame did to the buffers in this call.
Log == Accesses(Request, call.cache, fullFirst)

\* The accesses before the first that takes back or writes `buffer`.
Before(log, buffer) ==
    LET own == {i \in 1..Len(log) : /\ log[i].op \in {"reclaim", "write"}
                                    /\ log[i].buffer = buffer}
    IN  IF own = {} THEN log
        ELSE SubSeq(log, 1, (CHOOSE i \in own : \A j \in own : i <= j) - 1)

\* C20: within one call of on_new_frame no buffer is read as a request
\* after it has been taken back or written as a reply.  On the path to a
\* Solicited Neighbor Advertisement every read of the request buffer, the
\* target among them, comes before the buffer is taken back, and what the
\* reply takes from the request was read before that; on the path to an
\* Echo Reply the request is read out of the request buffer while the
\* reply is written into the other buffer only.
C20_ReadBeforeWrite ==
    call.made
    => LET log      == Log
           before   == Before(log, "bytes")
           reads    == {i \in 1..Len(log) : log[i].op = "read"}
           own      == (1..Len(log)) \ reads
           ownBytes == {i \in own : log[i].buffer = "bytes"}
           ownExtra == {i \in own : log[i].buffer = "extra_buf"}
       IN  /\ \A i \in own :
                 \A j \in reads : i < j => log[i].buffer # log[j].buffer
           /\ \A j \in own :
                 log[j].from # 0
                 => \E i \in 1..Len(before) :
                       /\ i < j
                       /\ log[i].op = "read"
                       /\ log[i].line = log[j].from
           /\ action.tag = "SolicitedNeighborAdvertisement"
                <=> \E i \in ownBytes : log[i].op = "write"
           /\ action.tag = "SolicitedNeighborAdvertisement"
                => /\ {155, 180, 184, 204, 237, 267}
                        \subseteq {before[i].line : i \in 1..Len(before)}
                   /\ ownExtra = {}
                   /\ buf = action.mac
                   /\ extra_buf = call.extra_buf
           /\ action.tag = "EchoReply"
                <=> ownExtra # {}
           /\ action.tag = "EchoReply"
                => /\ ownBytes = {}
                   /\ {346, 347, 348} \subseteq {log[i].line : i \in reads}
                   /\ buf = call.bytes
                   /\ extra_buf = action.mac
           /\ action.tag = "Nop"
                => own = {}

\* A Solicited Neighbor Advertisement was built: the target was read at
\* line 267, the buffer taken back at line 283, the target written at
\* line 306.
C20_Witness ==
    /\ call.made
    /\ action.tag = "SolicitedNeighborAdvertisement"
    /\ \E i, j, k \in 1..Len(Log) :
          /\ i < j /\ j < k
          /\ Log[i].op = "read" /\ Log[i].line = 267
          /\ Log[j].op = "reclaim"
          /\ Log[k].op = "write" /\ Log[k].from = 267
    /\ buf = action.mac

(***************************************************************************)
(* The neighbor cache over the frames received.                            *)
(***************************************************************************)

\* The entries of `map` under the keys other than `k`.
Others(map, k) == { map[i] : i \in {j \in 1..Len(map) : map[j][1] # k} }

\* C21: over any sequence of inbound frames every key of the neighbor
\* cache is a link-local address, no step removes a key, the cache changes
\* only in a call of on_new_frame and then at most in the one entry of the
\* frame's source network address; an Echo Request whose source network
\* address is not link-local yields Nop whatever was received before.
C21_CacheGrowsBySource ==
    [][ /\ \A k \in Keys(cache') : is_link_local(k)
        /\ Keys(cache) \subseteq Keys(cache')
        /\ Len(cache') = Cardinality(Keys(cache'))
        /\ cache' # cache
             => /\ pc = "process"
                /\ Keys(cache') \subseteq Keys(cache) \cup {src_nl_addr(buf)}
                /\ Others(cache', src_nl_addr(buf))
                     = Others(cache, src_nl_addr(buf))
        /\ ( /\ pc = "process"
             /\ IsIcmp(buf, "EchoRequest")
             /\ ~is_link_local(src_nl_addr(buf)) )
             => /\ action'.tag = "Nop"
                /\ cache' = cache
      ]_vars

\* With a neighbor in the cache, a well-formed Echo Request that carries a
\* global source address in line was turned down and left the cache alone.
C21_Witness ==
    /\ call.made
    /\ nCalls = MaxFrames
    /\ call.cache # <<>>
    /\ IsIcmp(Request, "EchoRequest")
    /\ Request.wellFormed
    /\ src_nl_addr(Request) = Global
    /\ action.tag = "Nop"
    /\ cache = call.cache

(***************************************************************************)
(* Where an Echo Reply goes.                                               *)
(***************************************************************************)

\* The request with another hop limit, checksum, network destination or
\* link-layer destination.
Variants(f) ==
    { [f EXCEPT !.hop_limit = hl, !.checksum = c, !.dest = d, !.dest_ll = l] :
        hl \in HopLimits, c \in Checksums, d \in DestFields,
        l \in {EXTENDED_ADDRESS, ExtB} }

\* C22: an EchoReply goes to the link-layer source of the frame that
\* carried the Echo Request, never to a link-layer address learned from an
\* earlier frame for the same network address; and whether an Echo
\* Request is answered does not depend on its hop limit, its checksum, or
\* its network or link-layer destination.
C22_ReplyToSender ==
    /\ Returned("EchoReply")
         => action.mac.mac.dest_ll = Request.src_ll
    /\ ( call.made /\ IsIcmp(Request, "EchoRequest") )
         => \A g \in Variants(Request) :
               on_new_frame(g, call.extra_buf, call.cache, fullFirst).action.tag
                 = action.tag

====
